---- MODULE Spec2Model ----
(***************************************************************************)
(* PeriodicSignal (cpp-toolbox/periodic_signal): the timeline-based        *)
(* variant under Spec, and the earlier last-signal-time variant (run next   *)
(* to the timeline-based one on the same clock) under SpecLegacy.           *)
(*                                                                         *)
(* Time is the std::chrono::steady_clock tick count.  A value of type      *)
(* double that holds seconds is kept as an integer number of 1/SecondsDen  *)
(* seconds; SecondsDen is a common multiple of ClockHz and of every rate   *)
(* in Rates, so that every division the code performs on such a value      *)
(* (1.0 / rate_limit_hz, elapsed / period, position / period) is exact.    *)
(* A cycle progress in [0.0, 1.0] is kept as a number of 1/ProgressOne.    *)
(* The earlier variant keeps its period in whole milliseconds; its times   *)
(* and doubles are kept in milliseconds.                                   *)
(***************************************************************************)
EXTENDS Integers, Naturals, Sequences, FiniteSets, TLC

\* ---------------------------------------------------------------- bounds
\* Last clock instant the model explores.
MaxTime == 7
\* Most polls of the earlier variant that return true in one run; with a
\* period of zero every poll does, any number of times per clock instant.
MaxTrue == 8

\* ------------------------------------------------------------- constants
\* Ticks of std::chrono::steady_clock per second.
ClockHz == 4
\* Resolution of a double holding seconds: one unit is 1/SecondsDen second.
SecondsDen == 6000
\* The double 1.0 of a cycle progress.
ProgressOne == SecondsDen
\* Values of rate_limit_hz given to the constructor; 3 does not divide
\* ClockHz, so its period is not a whole number of clock ticks.
Rates == {2, 3}
MaxRate == CHOOSE r \in Rates : \A q \in Rates : q <= r
DeltaMode == {"perfect", "measured"}
\* Milliseconds per second: the 1000 of 1000 / rate_limit_hz.
MsPerSecond == 1000
\* One steady_clock tick in milliseconds.
MsPerTick == MsPerSecond \div ClockHz
\* Values of rate_limit_hz given to the constructor of the earlier variant.
LegacyRates == {2, 4, 2000}
OperationMode == {"PERFECT_DELTAS", "MEASURED_DELTAS"}
\* The double NaN, kept as a number outside the range of every other result.
NaN == 0 - ProgressOne
\* The outcome "the division trapped" among the results of a remainder.
Trap == 0 - 1
TimeModel == {"realtime", "tick_latched"}

VARIABLES
    now,          \* std::chrono::steady_clock::now()
    args,         \* the constructor's arguments
    self,         \* the PeriodicSignal object
    fresh,        \* an instance constructed at the instant of the last restart()
    lastOp,       \* the operation (or clock advance) that made the last step
    ret,          \* result of the last operation when it returns bool
    val,          \* result of the last operation when it returns double
    fresh_ret,    \* the same operation's results on fresh
    fresh_val,
    twin,         \* an instance constructed like self but with TimeModel::tick_latched
    twin_ret,     \* the same operation's results on twin
    twin_val,
    epoch,        \* instant of construction or of the last restart()
    true_count,   \* polls that returned true since epoch
    trues_at_now, \* polls that returned true at the current clock instant
    claim_time,   \* instant of the last poll that returned true (or epoch)
    prev_claim_time, \* instant of the one before (or epoch)
    last_poll_idx,   \* period in which the last poll since epoch fell, -1: none
    gap_free,        \* every period up to last_poll_idx had a poll in it
    first_in_period, \* the last poll was the first one in its period
    last_poll_time,  \* instant of the last poll since epoch (or epoch)
    prev_poll_time,  \* instant of the poll before it (or epoch)
    count_before,    \* signal_count before the last poll
    delta_sum,       \* sum of get_last_delta_time() after each true poll since epoch
    clamped_sample,  \* last get_cycle_progress_clamped() result since a true poll, -1: none
    restart_since,   \* restart() was called since clamped_sample was taken
    legacy,          \* the PeriodicSignal object of the last-signal-time variant
    legacy_ret,      \* result of the last operation on legacy when it returns bool
    legacy_val,      \* result of the last operation on legacy when it returns double
    crashed,         \* the process was stopped by an integer division by zero
    legacy_true_count, \* polls of legacy that returned true
    slow,            \* every poll so far came a full period or more after the one before
    first,           \* the PeriodicSignal object of the first variant
    first_ret,       \* result of the last operation on first when it returns bool
    first_val,       \* result of the last operation on first when it returns double
    first_crashed    \* the run of first was stopped by an integer division by zero

obj_vars == <<now, args, self, fresh, twin>>
out_vars == <<lastOp, ret, val, fresh_ret, fresh_val, twin_ret, twin_val>>
poll_hist == <<epoch, true_count, trues_at_now, claim_time, prev_claim_time,
               last_poll_idx, gap_free, first_in_period, last_poll_time,
               prev_poll_time, count_before, delta_sum>>
sample_hist == <<clamped_sample, restart_since>>
legacy_vars == <<legacy, legacy_ret, legacy_val, crashed, legacy_true_count, slow,
                 first, first_ret, first_val, first_crashed>>
vars == <<obj_vars, out_vars, poll_hist, sample_hist, legacy_vars>>

\* ------------------------------------------------- arithmetic of the code
\* std::chrono::duration<double>(d).count() of a steady_clock duration d.
duration_count(d) == d * (SecondsDen \div ClockHz)

\* static_cast<int>(x / y) for doubles x, y with y > 0: truncation toward 0.
static_cast_int(x, y) == IF x >= 0 THEN x \div y ELSE -((-x) \div y)

\* std::fmod(x, y) for y > 0: the remainder has the sign of x.
fmod(x, y) == IF x >= 0 THEN x % y ELSE -((-x) % y)

\* std::clamp(v, lo, hi)
clamp(v, lo, hi) == IF v < lo THEN lo ELSE IF hi < v THEN hi ELSE v

\* The double quotient position / period, as a progress value.
progress_ratio(position, period) ==
    IF position >= 0 THEN (position * ProgressOne) \div period
    ELSE -(((-position) * ProgressOne) \div period)

\* ----------------------------------------------------- the object's code
\* A constructor in which time_model has an effect: a tick_latched object
\* reports the latched, nominal delta whatever its delta mode.
PeriodicSignal_latching(rate_limit_hz, delta_mode, time_model, t) ==
    [ period_duration |-> SecondsDen \div rate_limit_hz,
      start_time |-> t,
      signal_count |-> 0,
      last_signal_time |-> t,
      last_delta_time |-> 0,
      delta_mode |-> IF time_model = "tick_latched" THEN "perfect" ELSE delta_mode,
      cycle_progress_at_last_process_and_get_signal_call |-> 0 ]

\* PeriodicSignal(rate_limit_hz, delta_mode, time_model) at clock instant t.
\* The argument time_model is not stored: the member of that name has no
\* initialiser and no method reads it, so it is no part of the record.
PeriodicSignal(rate_limit_hz, delta_mode, time_model, t) ==
    [ period_duration |-> SecondsDen \div rate_limit_hz,
      start_time |-> t,
      signal_count |-> 0,
      last_signal_time |-> t,
      last_delta_time |-> 0,
      delta_mode |-> delta_mode,
      cycle_progress_at_last_process_and_get_signal_call |-> 0 ]

\* restart() that forgets last_delta_time.
restart_keeps_delta(s, t) ==
    [s EXCEPT !.start_time = t,
              !.signal_count = 0,
              !.last_signal_time = t]

\* restart() that forgets signal_count.
restart_keeps_count(s, t) ==
    [s EXCEPT !.start_time = t,
              !.last_signal_time = t,
              !.last_delta_time = 0]

\* restart() that forgets last_signal_time.
restart_keeps_last_signal_time(s, t) ==
    [s EXCEPT !.start_time = t,
              !.signal_count = 0,
              !.last_delta_time = 0]

restart(s, t) ==
    [s EXCEPT !.start_time = t,
              !.signal_count = 0,
              !.last_signal_time = t,
              !.last_delta_time = 0]

get_cycle_progress_at(s, time_point) ==
    LET elapsed_seconds == duration_count(time_point - s.start_time)
        cycle_position == fmod(elapsed_seconds, s.period_duration)
    IN  clamp(progress_ratio(cycle_position, s.period_duration), 0, ProgressOne)

\* get_cycle_progress() measured from the last signal, as the earlier
\* implementation did, instead of from the timeline.
get_cycle_progress_since_last_signal(s, t) ==
    LET elapsed_seconds == duration_count(t - s.last_signal_time)
    IN  clamp(progress_ratio(elapsed_seconds, s.period_duration), 0, ProgressOne)

get_cycle_progress(s, t) ==
    LET elapsed_seconds == duration_count(t - s.start_time)
        cycle_position == fmod(elapsed_seconds, s.period_duration)
    IN  clamp(progress_ratio(cycle_position, s.period_duration), 0, ProgressOne)

\* process_and_get_signal() that claims one period per call instead of
\* moving signal_count to the latest expected one.
process_and_get_signal_one_step(s, t) ==
    LET elapsed_seconds == duration_count(t - s.start_time)
        expected_signal_count == static_cast_int(elapsed_seconds, s.period_duration)
        s1 == [s EXCEPT !.cycle_progress_at_last_process_and_get_signal_call =
                            get_cycle_progress_at(s, t)]
    IN  IF expected_signal_count > s1.signal_count
        THEN [ self |-> [s1 EXCEPT !.signal_count = s1.signal_count + 1,
                                   !.last_delta_time = duration_count(t - s1.last_signal_time),
                                   !.last_signal_time = t],
               ret |-> TRUE ]
        ELSE [ self |-> s1, ret |-> FALSE ]

\* process_and_get_signal() that decides from the time since the last
\* signal, as the earlier implementation did.
process_and_get_signal_from_last(s, t) ==
    LET time_since_last_on_signal == duration_count(t - s.last_signal_time)
        s1 == [s EXCEPT !.cycle_progress_at_last_process_and_get_signal_call =
                            get_cycle_progress_at(s, t)]
    IN  IF time_since_last_on_signal >= s1.period_duration
        THEN [ self |-> [s1 EXCEPT !.signal_count = s1.signal_count + 1,
                                   !.last_delta_time = time_since_last_on_signal,
                                   !.last_signal_time = t],
               ret |-> TRUE ]
        ELSE [ self |-> s1, ret |-> FALSE ]

\* process_and_get_signal() that stores the delta on every call, before
\* the test, as the first implementation did.
process_and_get_signal_delta_always(s, t) ==
    LET elapsed_seconds == duration_count(t - s.start_time)
        expected_signal_count == static_cast_int(elapsed_seconds, s.period_duration)
        s1 == [s EXCEPT !.cycle_progress_at_last_process_and_get_signal_call =
                            get_cycle_progress_at(s, t),
                        !.last_delta_time = duration_count(t - s.last_signal_time)]
    IN  IF expected_signal_count > s1.signal_count
        THEN [ self |-> [s1 EXCEPT !.signal_count = expected_signal_count,
                                   !.last_signal_time = t],
               ret |-> TRUE ]
        ELSE [ self |-> s1, ret |-> FALSE ]

\* process_and_get_signal() that stamps last_signal_time before it
\* measures the delta.
process_and_get_signal_delta_after_stamp(s, t) ==
    LET elapsed_seconds == duration_count(t - s.start_time)
        expected_signal_count == static_cast_int(elapsed_seconds, s.period_duration)
        s1 == [s EXCEPT !.cycle_progress_at_last_process_and_get_signal_call =
                            get_cycle_progress_at(s, t)]
        s2 == [s1 EXCEPT !.signal_count = expected_signal_count,
                         !.last_signal_time = t]
    IN  IF expected_signal_count > s1.signal_count
        THEN [ self |-> [s2 EXCEPT !.last_delta_time = duration_count(t - s2.last_signal_time)],
               ret |-> TRUE ]
        ELSE [ self |-> s1, ret |-> FALSE ]

\* process_and_get_signal() that also fires when the expected count equals
\* signal_count (>= for >).
process_and_get_signal_when_equal(s, t) ==
    LET elapsed_seconds == duration_count(t - s.start_time)
        expected_signal_count == static_cast_int(elapsed_seconds, s.period_duration)
        s1 == [s EXCEPT !.cycle_progress_at_last_process_and_get_signal_call =
                            get_cycle_progress_at(s, t)]
    IN  IF expected_signal_count >= s1.signal_count
        THEN [ self |-> [s1 EXCEPT !.signal_count = expected_signal_count,
                                   !.last_delta_time = duration_count(t - s1.last_signal_time),
                                   !.last_signal_time = t],
               ret |-> TRUE ]
        ELSE [ self |-> s1, ret |-> FALSE ]

\* Result: the object after the call and the value returned.
process_and_get_signal(s, t) ==
    LET elapsed_seconds == duration_count(t - s.start_time)
        expected_signal_count == static_cast_int(elapsed_seconds, s.period_duration)
        s1 == [s EXCEPT !.cycle_progress_at_last_process_and_get_signal_call =
                            get_cycle_progress_at(s, t)]
    IN  IF expected_signal_count > s1.signal_count
        THEN [ self |-> [s1 EXCEPT !.signal_count = expected_signal_count,
                                   !.last_delta_time = duration_count(t - s1.last_signal_time),
                                   !.last_signal_time = t],
               ret |-> TRUE ]
        ELSE [ self |-> s1, ret |-> FALSE ]

\* get_last_delta_time() that ignores the delta mode.
get_last_delta_time_stored(s) == s.last_delta_time

get_last_delta_time(s) ==
    IF s.delta_mode = "perfect" THEN s.period_duration ELSE s.last_delta_time

\* enough_time_has_passed() that is also true when the expected count equals
\* signal_count (>= for >).
enough_time_has_passed_when_equal(s, t) ==
    LET elapsed_seconds == duration_count(t - s.start_time)
        expected_signal_count == static_cast_int(elapsed_seconds, s.period_duration)
    IN  expected_signal_count >= s.signal_count

enough_time_has_passed(s, t) ==
    LET elapsed_seconds == duration_count(t - s.start_time)
        expected_signal_count == static_cast_int(elapsed_seconds, s.period_duration)
    IN  expected_signal_count > s.signal_count

\* get_cycle_progress_clamped() without the test for an unclaimed signal.
get_cycle_progress_clamped_no_test(s, t) ==
    LET elapsed_seconds == duration_count(t - s.start_time)
        cycle_position == fmod(elapsed_seconds, s.period_duration)
    IN  clamp(progress_ratio(cycle_position, s.period_duration), 0, ProgressOne)

\* get_cycle_progress_clamped() that is also pinned once the due signals are
\* all claimed (>= for >).
get_cycle_progress_clamped_pinned_when_claimed(s, t) ==
    LET elapsed_seconds == duration_count(t - s.start_time)
        expected_signal_count == static_cast_int(elapsed_seconds, s.period_duration)
        cycle_position == fmod(elapsed_seconds, s.period_duration)
    IN  IF expected_signal_count >= s.signal_count
        THEN ProgressOne
        ELSE clamp(progress_ratio(cycle_position, s.period_duration), 0, ProgressOne)

get_cycle_progress_clamped(s, t) ==
    LET elapsed_seconds == duration_count(t - s.start_time)
        expected_signal_count == static_cast_int(elapsed_seconds, s.period_duration)
        cycle_position == fmod(elapsed_seconds, s.period_duration)
    IN  IF expected_signal_count > s.signal_count
        THEN ProgressOne
        ELSE clamp(progress_ratio(cycle_position, s.period_duration), 0, ProgressOne)

\* ------------------------------ the object's code, last-signal-time variant
\* A steady_clock time point in milliseconds.
steady_ms(t) == t * MsPerTick

\* PeriodicSignal(rate_limit_hz, mode) at clock instant t; the period is
\* std::chrono::milliseconds(1000 / rate_limit_hz), an integer division.
legacy_PeriodicSignal(rate_limit_hz, mode, t) ==
    [ period_duration |-> MsPerSecond \div rate_limit_hz,
      last_signal_time |-> steady_ms(t),
      last_delta_time |-> 0,
      mode |-> mode ]

legacy_enough_time_has_passed(s, t) ==
    LET time_since_last_on_signal == steady_ms(t) - s.last_signal_time
    IN  time_since_last_on_signal >= s.period_duration

\* time_since_last_on_signal % period_duration: the set of results.  With a
\* zero period the integer remainder is undefined: the build either traps
\* (the element Trap) or, where the divide instruction yields 0, computes
\* the dividend.
legacy_leftover_time(time_since_last_on_signal, period_duration) ==
    IF period_duration = 0
    THEN {Trap, time_since_last_on_signal}
    ELSE {time_since_last_on_signal % period_duration}

\* process_and_get_signal() of the earlier variant that pays the leftover
\* time forward in MEASURED_DELTAS as well.
legacy_process_and_get_signal_on_schedule(s, t) ==
    LET time_since_last_on_signal == steady_ms(t) - s.last_signal_time
    IN  IF legacy_enough_time_has_passed(s, t)
        THEN IF s.mode = "PERFECT_DELTAS"
             THEN { IF leftover_time = Trap
                    THEN [ self |-> [s EXCEPT !.last_delta_time = s.period_duration],
                           ret |-> FALSE, trap |-> TRUE ]
                    ELSE [ self |-> [s EXCEPT !.last_delta_time = s.period_duration,
                                              !.last_signal_time = steady_ms(t) - leftover_time],
                           ret |-> TRUE, trap |-> FALSE ]
                    : leftover_time \in
                        legacy_leftover_time(time_since_last_on_signal, s.period_duration) }
             ELSE { [ self |-> [s EXCEPT !.last_delta_time = time_since_last_on_signal,
                                        !.last_signal_time =
                                            IF s.period_duration = 0 THEN steady_ms(t)
                                            ELSE steady_ms(t) -
                                                 (time_since_last_on_signal % s.period_duration)],
                      ret |-> TRUE, trap |-> FALSE ] }
        ELSE { [ self |-> s, ret |-> FALSE, trap |-> FALSE ] }

\* process_and_get_signal() of the earlier variant that stamps the poll time
\* in PERFECT_DELTAS as well, dropping the leftover time.
legacy_process_and_get_signal_drops_leftover(s, t) ==
    LET time_since_last_on_signal == steady_ms(t) - s.last_signal_time
    IN  IF legacy_enough_time_has_passed(s, t)
        THEN IF s.mode = "PERFECT_DELTAS"
             THEN { [ self |-> [s EXCEPT !.last_delta_time = s.period_duration,
                                        !.last_signal_time = steady_ms(t)],
                      ret |-> TRUE, trap |-> FALSE ] }
             ELSE { [ self |-> [s EXCEPT !.last_delta_time = time_since_last_on_signal,
                                        !.last_signal_time = steady_ms(t)],
                      ret |-> TRUE, trap |-> FALSE ] }
        ELSE { [ self |-> s, ret |-> FALSE, trap |-> FALSE ] }

\* The set of outcomes: the object after the call, the value returned, and
\* whether the call trapped.
legacy_process_and_get_signal(s, t) ==
    LET time_since_last_on_signal == steady_ms(t) - s.last_signal_time
    IN  IF legacy_enough_time_has_passed(s, t)
        THEN IF s.mode = "PERFECT_DELTAS"
             THEN { IF leftover_time = Trap
                    THEN [ self |-> [s EXCEPT !.last_delta_time = s.period_duration],
                           ret |-> FALSE, trap |-> TRUE ]
                    ELSE [ self |-> [s EXCEPT !.last_delta_time = s.period_duration,
                                              !.last_signal_time = steady_ms(t) - leftover_time],
                           ret |-> TRUE, trap |-> FALSE ]
                    : leftover_time \in
                        legacy_leftover_time(time_since_last_on_signal, s.period_duration) }
             ELSE { [ self |-> [s EXCEPT !.last_delta_time = time_since_last_on_signal,
                                        !.last_signal_time = steady_ms(t)],
                      ret |-> TRUE, trap |-> FALSE ] }
        ELSE { [ self |-> s, ret |-> FALSE, trap |-> FALSE ] }

legacy_get_last_delta_time(s) == s.last_delta_time

\* elapsed / period in doubles: x/0.0 is +infinity for x > 0 and NaN for
\* x = 0; neither comparison with NaN is true, so NaN is returned as it is.
legacy_get_cycle_progress(s, t) ==
    LET elapsed == steady_ms(t) - s.last_signal_time
        period == s.period_duration
    IN  IF period = 0
        THEN IF elapsed = 0 THEN NaN
             ELSE IF elapsed > 0 THEN ProgressOne ELSE 0
        ELSE clamp(progress_ratio(elapsed, period), 0, ProgressOne)

\* ------------------------------------ the object's code, first variant
\* PeriodicSignal(rate_limit_hz) at clock instant t.
first_PeriodicSignal(rate_limit_hz, t) ==
    [ period_duration |-> MsPerSecond \div rate_limit_hz,
      last_signal_time |-> steady_ms(t),
      last_delta_time |-> 0 ]

\* The set of outcomes: the object after the call, the value returned, and
\* whether the call trapped. Every call stores the delta; a true one moves
\* last_signal_time back by the leftover time.
first_process_and_get_signal(s, t) ==
    LET time_since_last_on_signal == steady_ms(t) - s.last_signal_time
        s1 == [s EXCEPT !.last_delta_time = time_since_last_on_signal]
    IN  IF time_since_last_on_signal >= s.period_duration
        THEN { IF leftover_time = Trap
               THEN [ self |-> s1, ret |-> FALSE, trap |-> TRUE ]
               ELSE [ self |-> [s1 EXCEPT !.last_signal_time = steady_ms(t) - leftover_time],
                      ret |-> TRUE, trap |-> FALSE ]
               : leftover_time \in
                   legacy_leftover_time(time_since_last_on_signal, s.period_duration) }
        ELSE { [ self |-> s1, ret |-> FALSE, trap |-> FALSE ] }

first_get_last_delta_time(s) == s.last_delta_time

\* ------------------------------------------------------------ the history
\* Whole periods elapsed at instant t since epoch e at rate r, from the
\* definition: the k with k/r <= (t - e)/ClockHz < (k+1)/r.
WholePeriods(e, r, t) ==
    CHOOSE k \in 0..(MaxTime + 1) * MaxRate :
        /\ k * ClockHz <= (t - e) * r
        /\ (t - e) * r < (k + 1) * ClockHz

\* The part of the running period that has elapsed at instant t >= e, as a
\* progress value: (t - e) minus the last tick boundary k/r, over 1/r.
CycleFraction(e, r, t) ==
    LET k == WholePeriods(e, r, t)
    IN  (((t - e) * r - k * ClockHz) * ProgressOne) \div ClockHz

\* The fields restart() and the constructor set.
Timeline(s) ==
    [ period_duration |-> s.period_duration, start_time |-> s.start_time,
      signal_count |-> s.signal_count, last_signal_time |-> s.last_signal_time,
      last_delta_time |-> s.last_delta_time, delta_mode |-> s.delta_mode ]

\* ------------------------------------------------------------------ Init
\* Under Spec the objects of the two earlier variants are constructed and
\* left alone.
LegacyIdle ==
    /\ legacy = legacy_PeriodicSignal(args.rate_limit_hz, "MEASURED_DELTAS", 0)
    /\ legacy_ret = FALSE /\ legacy_val = 0
    /\ crashed = FALSE
    /\ legacy_true_count = 0
    /\ slow = TRUE
    /\ first = first_PeriodicSignal(args.rate_limit_hz, 0)
    /\ first_ret = FALSE /\ first_val = 0
    /\ first_crashed = FALSE

Init ==
    /\ now = 0
    /\ args \in [rate_limit_hz : Rates, delta_mode : DeltaMode]
    /\ self = PeriodicSignal(args.rate_limit_hz, args.delta_mode, "realtime", 0)
    /\ twin = PeriodicSignal(args.rate_limit_hz, args.delta_mode, "tick_latched", 0)
    /\ fresh = self
    /\ lastOp = "construct"
    /\ ret = FALSE /\ val = 0 /\ fresh_ret = FALSE /\ fresh_val = 0
    /\ twin_ret = FALSE /\ twin_val = 0
    /\ LegacyIdle
    /\ epoch = 0
    /\ true_count = 0 /\ trues_at_now = 0
    /\ claim_time = 0 /\ prev_claim_time = 0
    /\ last_poll_idx = -1 /\ gap_free = TRUE /\ first_in_period = FALSE
    /\ last_poll_time = 0 /\ prev_poll_time = 0 /\ count_before = 0
    /\ delta_sum = 0
    /\ clamped_sample = -1 /\ restart_since = FALSE

\* --------------------------------------------------------------- actions
\* The steady clock moves forward between two calls.
AdvanceClock ==
    /\ \E t \in (now + 1)..MaxTime : now' = t
    /\ lastOp' = "advance"
    /\ ret' = FALSE /\ val' = 0 /\ fresh_ret' = FALSE /\ fresh_val' = 0
    /\ twin_ret' = FALSE /\ twin_val' = 0
    /\ trues_at_now' = 0
    /\ UNCHANGED <<args, self, fresh, twin, epoch, true_count, claim_time, prev_claim_time,
                   last_poll_idx, gap_free, first_in_period, last_poll_time,
                   prev_poll_time, count_before, delta_sum, sample_hist>>
    /\ UNCHANGED <<legacy, crashed, legacy_true_count, slow, first, first_crashed>>
    /\ legacy_ret' = FALSE /\ legacy_val' = 0
    /\ first_ret' = FALSE /\ first_val' = 0

DoProcessAndGetSignal ==
    LET r == process_and_get_signal(self, now)
        f == process_and_get_signal(fresh, now)
        w == process_and_get_signal(twin, now)
        idx == WholePeriods(epoch, args.rate_limit_hz, now)
    IN  /\ self' = r.self
        /\ fresh' = f.self
        /\ twin' = w.self
        /\ lastOp' = "process_and_get_signal"
        /\ ret' = r.ret /\ val' = 0 /\ fresh_ret' = f.ret /\ fresh_val' = 0
        /\ twin_ret' = w.ret /\ twin_val' = 0
        /\ true_count' = IF r.ret THEN true_count + 1 ELSE true_count
        /\ trues_at_now' = IF r.ret THEN trues_at_now + 1 ELSE trues_at_now
        /\ claim_time' = IF r.ret THEN now ELSE claim_time
        /\ prev_claim_time' = IF r.ret THEN claim_time ELSE prev_claim_time
        /\ last_poll_idx' = idx
        /\ gap_free' = (gap_free /\ idx <= last_poll_idx + 1)
        /\ first_in_period' = (idx > last_poll_idx)
        /\ last_poll_time' = now
        /\ prev_poll_time' = last_poll_time
        /\ count_before' = self.signal_count
        /\ delta_sum' = IF r.ret THEN delta_sum + get_last_delta_time(r.self)
                          ELSE delta_sum
        /\ clamped_sample' = IF r.ret THEN -1 ELSE clamped_sample
        /\ restart_since' = IF r.ret THEN FALSE ELSE restart_since
        /\ UNCHANGED <<now, args, epoch, legacy_vars>>

\* enough_time_has_passed() that claims the signal it reports.
DoEnoughTimeHasPassed_claiming ==
    /\ lastOp' = "enough_time_has_passed"
    /\ ret' = enough_time_has_passed(self, now) /\ val' = 0
    /\ fresh_ret' = enough_time_has_passed(fresh, now) /\ fresh_val' = 0
    /\ twin_ret' = enough_time_has_passed(twin, now) /\ twin_val' = 0
    /\ self' = process_and_get_signal(self, now).self
    /\ fresh' = process_and_get_signal(fresh, now).self
    /\ twin' = process_and_get_signal(twin, now).self
    /\ UNCHANGED <<now, args, poll_hist, sample_hist, legacy_vars>>

DoEnoughTimeHasPassed ==
    /\ lastOp' = "enough_time_has_passed"
    /\ ret' = enough_time_has_passed(self, now) /\ val' = 0
    /\ fresh_ret' = enough_time_has_passed(fresh, now) /\ fresh_val' = 0
    /\ twin_ret' = enough_time_has_passed(twin, now) /\ twin_val' = 0
    /\ UNCHANGED <<obj_vars, poll_hist, sample_hist, legacy_vars>>

DoGetLastDeltaTime ==
    /\ lastOp' = "get_last_delta_time"
    /\ ret' = FALSE /\ val' = get_last_delta_time(self)
    /\ fresh_ret' = FALSE /\ fresh_val' = get_last_delta_time(fresh)
    /\ twin_ret' = FALSE /\ twin_val' = get_last_delta_time(twin)
    /\ UNCHANGED <<obj_vars, poll_hist, sample_hist, legacy_vars>>

DoGetCycleProgress ==
    /\ lastOp' = "get_cycle_progress"
    /\ ret' = FALSE /\ val' = get_cycle_progress(self, now)
    /\ fresh_ret' = FALSE /\ fresh_val' = get_cycle_progress(fresh, now)
    /\ twin_ret' = FALSE /\ twin_val' = get_cycle_progress(twin, now)
    /\ UNCHANGED <<obj_vars, poll_hist, sample_hist, legacy_vars>>

\* The caller passes any time point, also one before start_time.
DoGetCycleProgressAt ==
    \E time_point \in 0..MaxTime :
        /\ lastOp' = "get_cycle_progress_at"
        /\ ret' = FALSE /\ val' = get_cycle_progress_at(self, time_point)
        /\ fresh_ret' = FALSE /\ fresh_val' = get_cycle_progress_at(fresh, time_point)
        /\ twin_ret' = FALSE /\ twin_val' = get_cycle_progress_at(twin, time_point)
        /\ UNCHANGED <<obj_vars, poll_hist, sample_hist, legacy_vars>>

DoGetCycleProgressClamped ==
    /\ lastOp' = "get_cycle_progress_clamped"
    /\ ret' = FALSE /\ val' = get_cycle_progress_clamped(self, now)
    /\ fresh_ret' = FALSE /\ fresh_val' = get_cycle_progress_clamped(fresh, now)
    /\ twin_ret' = FALSE /\ twin_val' = get_cycle_progress_clamped(twin, now)
    /\ clamped_sample' = get_cycle_progress_clamped(self, now)
    /\ restart_since' = FALSE
    /\ UNCHANGED <<obj_vars, poll_hist, legacy_vars>>

\* restart() on the object; fresh becomes a newly constructed instance with
\* the same rate and delta mode.
DoRestart ==
    /\ self' = restart(self, now)
    /\ twin' = restart(twin, now)
    /\ \E time_model \in TimeModel :
          fresh' = PeriodicSignal(args.rate_limit_hz, args.delta_mode, time_model, now)
    /\ lastOp' = "restart"
    /\ ret' = FALSE /\ val' = 0 /\ fresh_ret' = FALSE /\ fresh_val' = 0
    /\ twin_ret' = FALSE /\ twin_val' = 0
    /\ epoch' = now
    /\ true_count' = 0
    /\ claim_time' = now /\ prev_claim_time' = now
    /\ last_poll_idx' = -1 /\ gap_free' = TRUE /\ first_in_period' = FALSE
    /\ last_poll_time' = now /\ prev_poll_time' = now /\ count_before' = 0
    /\ delta_sum' = 0
    /\ restart_since' = TRUE
    /\ UNCHANGED <<now, args, trues_at_now, clamped_sample, legacy_vars>>

Next ==
    \/ AdvanceClock
    \/ DoProcessAndGetSignal
    \/ DoEnoughTimeHasPassed
    \/ DoGetLastDeltaTime
    \/ DoGetCycleProgress
    \/ DoGetCycleProgressAt
    \/ DoGetCycleProgressClamped
    \/ DoRestart

Spec == Init /\ [][Next]_vars

\* ------------------------------------- the earlier variant, under SpecLegacy
\* Whole periods 1/r elapsed at instant t since instant e.
PeriodIndex(e, r, t) == ((t - e) * r) \div ClockHz

\* The objects of the first variant and of the earlier variant and a
\* timeline-based one (measured deltas) are constructed at the same instant
\* with the same rate.
InitLegacy ==
    /\ now = 0
    /\ args \in [rate_limit_hz : LegacyRates, delta_mode : {"measured"}]
    /\ self = PeriodicSignal(args.rate_limit_hz, args.delta_mode, "realtime", 0)
    /\ twin = self
    /\ fresh = self
    /\ \E mode \in OperationMode :
          legacy = legacy_PeriodicSignal(args.rate_limit_hz, mode, 0)
    /\ lastOp = "construct"
    /\ ret = FALSE /\ val = 0 /\ fresh_ret = FALSE /\ fresh_val = 0
    /\ twin_ret = FALSE /\ twin_val = 0
    /\ legacy_ret = FALSE /\ legacy_val = 0
    /\ crashed = FALSE
    /\ legacy_true_count = 0
    /\ slow = TRUE
    /\ first = first_PeriodicSignal(args.rate_limit_hz, 0)
    /\ first_ret = FALSE /\ first_val = 0
    /\ first_crashed = FALSE
    /\ epoch = 0
    /\ true_count = 0 /\ trues_at_now = 0
    /\ claim_time = 0 /\ prev_claim_time = 0
    /\ last_poll_idx = -1 /\ gap_free = TRUE /\ first_in_period = FALSE
    /\ last_poll_time = 0 /\ prev_poll_time = 0 /\ count_before = 0
    /\ delta_sum = 0
    /\ clamped_sample = -1 /\ restart_since = FALSE

\* What no operation of SpecLegacy touches.
legacy_frame == <<args, fresh, twin, fresh_ret, fresh_val, twin_ret, twin_val,
                  epoch, sample_hist>>

\* The caller polls the three objects at the same clock instant.
LegacyProcessAndGetSignal ==
    /\ ~crashed /\ ~first_crashed
    /\ legacy_true_count < MaxTrue
    /\ \E o \in legacy_process_and_get_signal(legacy, now),
          g \in first_process_and_get_signal(first, now) :
         LET r == process_and_get_signal(self, now)
             idx == PeriodIndex(epoch, args.rate_limit_hz, now)
         IN  /\ legacy' = o.self
             /\ first' = g.self
             /\ first_ret' = g.ret /\ first_val' = 0
             /\ first_crashed' = g.trap
             /\ legacy_ret' = o.ret /\ legacy_val' = 0
             /\ crashed' = o.trap
             /\ legacy_true_count' = IF o.ret THEN legacy_true_count + 1
                                              ELSE legacy_true_count
             /\ self' = r.self
             /\ lastOp' = "process_and_get_signal"
             /\ ret' = r.ret /\ val' = 0
             /\ true_count' = IF r.ret THEN true_count + 1 ELSE true_count
             /\ trues_at_now' = IF r.ret THEN trues_at_now + 1 ELSE trues_at_now
             /\ claim_time' = IF r.ret THEN now ELSE claim_time
             /\ prev_claim_time' = IF r.ret THEN claim_time ELSE prev_claim_time
             /\ last_poll_idx' = idx
             /\ gap_free' = (gap_free /\ idx <= last_poll_idx + 1)
             /\ first_in_period' = (idx > last_poll_idx)
             /\ last_poll_time' = now
             /\ prev_poll_time' = last_poll_time
             /\ count_before' = self.signal_count
             /\ delta_sum' = IF r.ret THEN delta_sum + get_last_delta_time(r.self)
                               ELSE delta_sum
             /\ slow' = (slow /\ (last_poll_idx = -1 \/
                                   (now - last_poll_time) * args.rate_limit_hz >= ClockHz))
             /\ UNCHANGED <<now, legacy_frame>>

LegacyEnoughTimeHasPassed ==
    /\ ~crashed /\ ~first_crashed
    /\ lastOp' = "enough_time_has_passed"
    /\ first_ret' = FALSE /\ first_val' = 0
    /\ legacy_ret' = legacy_enough_time_has_passed(legacy, now) /\ legacy_val' = 0
    /\ ret' = enough_time_has_passed(self, now) /\ val' = 0
    /\ UNCHANGED <<now, self, legacy, crashed, legacy_true_count, slow, poll_hist,
                   legacy_frame, first, first_crashed>>

LegacyGetLastDeltaTime ==
    /\ ~crashed /\ ~first_crashed
    /\ lastOp' = "get_last_delta_time"
    /\ first_ret' = FALSE /\ first_val' = first_get_last_delta_time(first)
    /\ legacy_ret' = FALSE /\ legacy_val' = legacy_get_last_delta_time(legacy)
    /\ ret' = FALSE /\ val' = get_last_delta_time(self)
    /\ UNCHANGED <<now, self, legacy, crashed, legacy_true_count, slow, poll_hist,
                   legacy_frame, first, first_crashed>>

LegacyGetCycleProgress ==
    /\ ~crashed /\ ~first_crashed
    /\ lastOp' = "get_cycle_progress"
    /\ first_ret' = FALSE /\ first_val' = 0
    /\ legacy_ret' = FALSE /\ legacy_val' = legacy_get_cycle_progress(legacy, now)
    /\ ret' = FALSE /\ val' = get_cycle_progress(self, now)
    /\ UNCHANGED <<now, self, legacy, crashed, legacy_true_count, slow, poll_hist,
                   legacy_frame, first, first_crashed>>

NextLegacy ==
    \/ AdvanceClock
    \/ LegacyProcessAndGetSignal
    \/ LegacyEnoughTimeHasPassed
    \/ LegacyGetLastDeltaTime
    \/ LegacyGetCycleProgress

SpecLegacy == InitLegacy /\ [][NextLegacy]_vars

\* ---------------------------------------------------------------- claims
Polled == lastOp = "process_and_get_signal"

\* C1: catch-up law.  A poll made when K >= 1 whole periods have elapsed and
\* no tick has been claimed since construction or restart returns true and
\* sets signal_count to exactly K; a poll that directly follows a poll (the
\* same clock instant) returns false; and no poll returns true at a clock
\* instant at which a poll has already returned true.
C1_CatchUp ==
    [][ lastOp' = "process_and_get_signal" =>
          LET K == WholePeriods(epoch, args.rate_limit_hz, now)
          IN  /\ (true_count = 0 /\ K >= 1) => (ret' = TRUE /\ self'.signal_count = K)
              /\ Polled => ret' = FALSE
              /\ ret' = TRUE => trues_at_now = 0 ]_vars

\* A single poll has claimed at least two missed periods at once.
C1_Witness ==
    /\ Polled /\ ret = TRUE
    /\ true_count = 1
    /\ self.signal_count >= 2
    /\ self.signal_count = WholePeriods(epoch, args.rate_limit_hz, now)

\* C2: drift-free ticking.  While every period since construction or restart
\* has had a poll in it, the number of polls that returned true equals the
\* number of whole periods elapsed at the last poll, and a poll returns true
\* exactly when it is the first poll of a period k >= 1 (it is then the k-th
\* true), however late in their periods the earlier polls came.
C2_DriftFree ==
    (gap_free /\ last_poll_idx >= 0) =>
        /\ true_count = last_poll_idx
        /\ Polled => (ret = TRUE <=> (first_in_period /\ last_poll_idx >= 1))

\* Two ticks claimed on a gap-free schedule, the last one by a poll that
\* came after its tick boundary.
C2_Witness ==
    /\ gap_free /\ Polled /\ ret = TRUE
    /\ true_count >= 2
    /\ CycleFraction(epoch, args.rate_limit_hz, now) > 0

\* C3: enough_time_has_passed() is read-only: a call changes no field of the
\* object (nor the clock), so the next process_and_get_signal() call finds
\* the state it would have found without it.
C3_EnoughIsReadOnly ==
    [][ lastOp' = "enough_time_has_passed" => (self' = self /\ now' = now) ]_vars

\* enough_time_has_passed() has returned true and the tick is still unclaimed.
C3_Witness ==
    /\ lastOp = "enough_time_has_passed" /\ ret = TRUE
    /\ self.signal_count < WholePeriods(epoch, args.rate_limit_hz, now)

\* C4 as stated: a process_and_get_signal() call that returns false changes
\* no member of the object, the public field
\* cycle_progress_at_last_process_and_get_signal_call included.
C4_Original ==
    [][ (lastOp' = "process_and_get_signal" /\ ret' = FALSE) => self' = self ]_vars

\* C4 amended: a process_and_get_signal() call that returns false changes no
\* member but cycle_progress_at_last_process_and_get_signal_call, which it
\* sets to the cycle progress at the instant of the call.
C4_FalsePollFrame ==
    [][ (lastOp' = "process_and_get_signal" /\ ret' = FALSE) =>
            self' = [self EXCEPT !.cycle_progress_at_last_process_and_get_signal_call =
                                     CycleFraction(epoch, args.rate_limit_hz, now)] ]_vars

\* A poll has returned false after a tick had been claimed, and has moved the
\* public field.
C4_Witness ==
    /\ Polled /\ ret = FALSE
    /\ true_count >= 1
    /\ self.cycle_progress_at_last_process_and_get_signal_call > 0
    /\ self.last_delta_time > 0

\* C5: in measured mode, once a tick has been claimed, get_last_delta_time()
\* is the clock time of the last poll that returned true minus that of the
\* one before it (start_time for the first), in every state up to the next
\* poll that returns true.
C5_MeasuredDelta ==
    (args.delta_mode = "measured" /\ true_count >= 1) =>
        get_last_delta_time(self) = duration_count(claim_time - prev_claim_time)

\* A second tick claimed late: the measured delta exceeds one period.
C5_Witness ==
    /\ args.delta_mode = "measured"
    /\ true_count >= 2
    /\ lastOp = "get_last_delta_time"
    /\ val > self.period_duration
    /\ now > claim_time

C7_Original ==
    true_count = 0 => get_last_delta_time(self) = 0

\* C7 amended: before any tick has been claimed since construction or
\* restart(), get_last_delta_time() is 0 in measured mode and the nominal
\* period 1/rate_limit_hz second in perfect mode.
C7_InitialDelta ==
    true_count = 0 =>
        /\ args.delta_mode = "measured" => get_last_delta_time(self) = 0
        /\ args.delta_mode = "perfect" =>
               get_last_delta_time(self) * args.rate_limit_hz = SecondsDen

\* The delta is read after a restart() and before any tick is claimed, in
\* measured mode, with a period already elapsed since the restart.
C7_Witness ==
    /\ lastOp = "get_last_delta_time"
    /\ args.delta_mode = "measured"
    /\ epoch > 0 /\ true_count = 0
    /\ WholePeriods(epoch, args.rate_limit_hz, now) >= 1
    /\ val = 0

SampledAgain ==
    /\ lastOp' = "get_cycle_progress_clamped"
    /\ clamped_sample # -1

\* C9 as stated: get_cycle_progress_clamped() never decreases from one
\* sample to a later one unless process_and_get_signal() returned true in
\* between, whatever other operations (restart() included) came in between.
C9_Original ==
    [][ SampledAgain => val' >= clamped_sample ]_vars

\* C9 amended: get_cycle_progress_clamped() never decreases from one sample
\* to a later one unless process_and_get_signal() returned true or restart()
\* was called in between.
C9_ClampedMonotone ==
    [][ (SampledAgain /\ ~restart_since) => val' >= clamped_sample ]_vars

\* A sample was taken inside a period, the clock has moved on and a tick is
\* now overdue and unclaimed: the unclamped progress has wrapped below the
\* sample, and the clamped query answers 1.0.
C9_Witness ==
    /\ lastOp = "advance"
    /\ ~restart_since
    /\ clamped_sample \in 1..(ProgressOne - 1)
    /\ enough_time_has_passed(self, now)
    /\ get_cycle_progress(self, now) < clamped_sample
    /\ get_cycle_progress_clamped(self, now) = ProgressOne

\* C10 as stated: right after a process_and_get_signal() call that returned
\* true, get_cycle_progress() at the same instant is approximately 0 (here:
\* below one half).
C10_Original ==
    (Polled /\ ret = TRUE) => 2 * get_cycle_progress(self, now) < ProgressOne

\* C10 amended: right after a process_and_get_signal() call that returned
\* true, get_cycle_progress() at the same instant is the part of a period by
\* which the poll came after the last tick boundary, which is less than the
\* time since the previous poll (or since construction or restart) over the
\* period; and at the last clock instant before a tick becomes due it is
\* within one clock tick over the period of 1.
C10_ProgressAfterTick ==
    LET p == get_cycle_progress(self, now)
        r == args.rate_limit_hz
    IN  /\ (Polled /\ ret = TRUE) =>
              /\ p = CycleFraction(epoch, r, now)
              /\ p * ClockHz < (now - prev_poll_time) * r * ProgressOne
        /\ (~enough_time_has_passed(self, now) /\ enough_time_has_passed(self, now + 1)) =>
              p * ClockHz + r * ProgressOne >= ProgressOne * ClockHz

\* A poll that came half a period or more after its tick boundary has
\* returned true.
C10_Witness ==
    /\ Polled /\ ret = TRUE
    /\ 2 * get_cycle_progress(self, now) >= ProgressOne
    /\ true_count >= 2

\* A double that is a cycle progress in [0.0, 1.0].
InUnitRange(v) == v \in 0..ProgressOne

\* The timeline-based queries at every instant from start_time on, and the
\* independence of get_cycle_progress() from signal_count.
TimelineProgressInRange ==
    \A t \in self.start_time..MaxTime :
        /\ InUnitRange(get_cycle_progress(self, t))
        /\ InUnitRange(get_cycle_progress_at(self, t))
        /\ InUnitRange(get_cycle_progress_clamped(self, t))
        /\ \A c \in {0, self.signal_count + 1} :
              get_cycle_progress([self EXCEPT !.signal_count = c], t) =
                  get_cycle_progress(self, t)

\* C11: every cycle-progress query returns a value in [0, 1], in every
\* reachable state and at every instant from start_time on: the three
\* timeline-based queries, and get_cycle_progress() of the earlier variant,
\* which is measured from last_signal_time; the timeline-based
\* get_cycle_progress() does not depend on signal_count.
C11_ProgressInRange ==
    /\ TimelineProgressInRange
    /\ lastOp = "get_cycle_progress" => (InUnitRange(val) /\ InUnitRange(legacy_val))

\* A tick of the timeline is due at instant t and not yet claimed.
Overdue(t) == WholePeriods(self.start_time, args.rate_limit_hz, t) > self.signal_count

\* C12: at every instant, get_cycle_progress_clamped() is exactly 1.0 if and
\* only if a tick is overdue and unclaimed (the whole periods elapsed since
\* start_time exceed signal_count); otherwise it equals get_cycle_progress().
C12_ClampedIffOverdue ==
    /\ \A t \in now..MaxTime :
         /\ get_cycle_progress_clamped(self, t) = ProgressOne <=> Overdue(t)
         /\ ~Overdue(t) =>
              get_cycle_progress_clamped(self, t) = get_cycle_progress(self, t)
    /\ lastOp = "get_cycle_progress_clamped" =>
         val = IF Overdue(now) THEN ProgressOne ELSE get_cycle_progress(self, now)

\* The clamped query answered 1.0 part-way through a period for a late tick,
\* after an earlier tick was claimed.
C12_Witness ==
    /\ lastOp = "get_cycle_progress_clamped"
    /\ val = ProgressOne
    /\ Overdue(now)
    /\ self.signal_count > 0
    /\ get_cycle_progress(self, now) \in 1..(ProgressOne - 1)

\* The clamped query answered the plain progress, with every due tick claimed.
C12_WitnessClaimed ==
    /\ lastOp = "get_cycle_progress_clamped"
    /\ ~Overdue(now)
    /\ self.signal_count > 0
    /\ val = get_cycle_progress(self, now)
    /\ val \in 1..(ProgressOne - 1)

\* C13 as stated: signal_count is never negative and never decreases over
\* any operation, restart() included, and a poll that returns true raises
\* it by exactly the number of whole periods newly elapsed.
C13_Original ==
    [][ /\ self'.signal_count >= 0
        /\ self'.signal_count >= self.signal_count
        /\ (lastOp' = "process_and_get_signal" /\ ret') =>
             self'.signal_count - self.signal_count =
                 WholePeriods(epoch, args.rate_limit_hz, now)
                   - WholePeriods(epoch, args.rate_limit_hz, claim_time) ]_vars

\* C13: signal_count is never negative; restart() resets it to 0 and no
\* other operation decreases it; a poll that returns true raises it by
\* exactly the whole periods elapsed since the previous claim (or since
\* start_time when there was none), at least one; any other operation
\* leaves it unchanged.
C13_CountMonotoneBetweenRestarts ==
    [][ /\ self'.signal_count >= 0
        /\ IF lastOp' = "restart" THEN self'.signal_count = 0
           ELSE IF lastOp' = "process_and_get_signal" /\ ret'
           THEN /\ self'.signal_count - self.signal_count =
                       WholePeriods(epoch, args.rate_limit_hz, now)
                         - WholePeriods(epoch, args.rate_limit_hz, claim_time)
                /\ self'.signal_count > self.signal_count
           ELSE self'.signal_count = self.signal_count ]_vars

\* A true poll has just claimed two periods at once, after an earlier claim
\* and a restart before that.
C13_Witness ==
    /\ lastOp = "process_and_get_signal" /\ ret
    /\ self.signal_count - count_before = 2
    /\ count_before > 0
    /\ epoch > 0

\* C14: in every reachable state of the timeline-based object, start_time <=
\* last_signal_time <= the current clock time, and last_signal_time is the
\* clock value sampled by the operation that last set it: the constructor,
\* restart(), or the last poll that returned true.
C14_LastSignalTimeBounded ==
    /\ self.start_time <= self.last_signal_time
    /\ self.last_signal_time <= now
    /\ self.start_time = epoch
    /\ self.last_signal_time = claim_time

\* After a restart and a later true poll, with the clock moved on since.
C14_Witness ==
    /\ epoch > 0
    /\ self.signal_count > 0
    /\ self.start_time < self.last_signal_time
    /\ self.last_signal_time < now

\* At least one full period 1/rate_limit_hz has elapsed since construction.
FirstPeriodOver == (now - epoch) * args.rate_limit_hz >= ClockHz

\* The poll instants so far, the present instant taken as the next one, are
\* at least one full period apart.
SlowCallerHere ==
    /\ slow
    /\ last_poll_idx = -1 \/ (now - last_poll_time) * args.rate_limit_hz >= ClockHz

\* C15: when consecutive polls are at least one full period apart, every
\* process_and_get_signal() call after the first period returns true, and so
\* does enough_time_has_passed() at such a poll instant, in the timeline-based
\* variant and in the earlier last-signal-time variant alike; no error state
\* is entered.
C15_SlowCaller ==
    /\ (slow /\ FirstPeriodOver) => ~crashed
    /\ (slow /\ FirstPeriodOver /\ lastOp = "process_and_get_signal") =>
         (ret /\ legacy_ret)
    /\ (SlowCallerHere /\ FirstPeriodOver /\ lastOp = "enough_time_has_passed") =>
         (ret /\ legacy_ret)

\* The same for objects of the earlier variant whose period is not zero.
SlowCallerPositivePeriod == legacy.period_duration > 0 => C15_SlowCaller

\* A slow caller's third poll in a row has returned true in both variants.
SlowCallerThirdPoll ==
    /\ slow /\ FirstPeriodOver
    /\ lastOp = "process_and_get_signal"
    /\ ret /\ legacy_ret
    /\ legacy_true_count >= 3
    /\ legacy.period_duration > 0

\* Less than one full period 1/rate_limit_hz has elapsed since construction
\* or the last restart.
WithinFirstPeriod == (now - epoch) * args.rate_limit_hz < ClockHz

\* C16: at every instant at which less than one full period has elapsed
\* since construction or since the last restart, process_and_get_signal()
\* and enough_time_has_passed() return false; in particular a poll
\* immediately after construction returns false.
C16_NoSignalInFirstPeriod ==
    WithinFirstPeriod =>
        /\ ~enough_time_has_passed(self, now)
        /\ ~process_and_get_signal(self, now).ret
        /\ lastOp \in {"process_and_get_signal", "enough_time_has_passed"} => ~ret

\* A poll has returned false part-way through the first period after a
\* restart, at an instant that is past the first period of the constructor.
C16_Witness ==
    /\ WithinFirstPeriod
    /\ lastOp = "process_and_get_signal" /\ ~ret
    /\ epoch > 0 /\ now > epoch
    /\ now * args.rate_limit_hz >= ClockHz

\* C17: for every positive integer rate the stored period is strictly
\* positive after construction and no later operation changes it, both for
\* the period 1.0 / rate_limit_hz in seconds of the timeline-based variant
\* and for the period 1000 / rate_limit_hz in whole milliseconds of the
\* earlier variant, which also uses it as a modulus.
C17_PeriodPositive ==
    /\ self.period_duration > 0
    /\ self.period_duration = PeriodicSignal(args.rate_limit_hz, args.delta_mode,
                                             "realtime", 0).period_duration
    /\ legacy.period_duration > 0
    /\ legacy.period_duration =
           legacy_PeriodicSignal(args.rate_limit_hz, legacy.mode, 0).period_duration

\* The same without the strict positivity of the earlier variant's period.
PeriodNeverChanged ==
    /\ self.period_duration > 0
    /\ self.period_duration = PeriodicSignal(args.rate_limit_hz, args.delta_mode,
                                             "realtime", 0).period_duration
    /\ legacy.period_duration >= 0
    /\ legacy.period_duration =
           legacy_PeriodicSignal(args.rate_limit_hz, legacy.mode, 0).period_duration

\* C18: the constructor argument time_model has no effect: an instance built
\* with TimeModel::tick_latched and one built with TimeModel::realtime, at
\* the same instant with the same rate and delta mode, hold the same state
\* and return the same result from every operation, under every sequence of
\* operations and clock advances.
C18_TimeModelNoOp ==
    /\ twin = self
    /\ twin_ret = ret
    /\ twin_val = val

\* Both instances have reported the same measured delta of more than one
\* period, after a restart.
C18_Witness ==
    /\ lastOp = "get_last_delta_time"
    /\ args.delta_mode = "measured"
    /\ val > self.period_duration /\ twin_val = val
    /\ epoch > 0

\* C19: in every reachable state and at every clock instant,
\* enough_time_has_passed() returns true if and only if a
\* process_and_get_signal() call made at that instant would return true;
\* both compare the whole periods elapsed since start_time with signal_count.
C19_EnoughAgreesWithPoll ==
    /\ \A t \in now..MaxTime :
         /\ enough_time_has_passed(self, t) <=> process_and_get_signal(self, t).ret
         /\ enough_time_has_passed(self, t) <=> Overdue(t)
    /\ lastOp = "enough_time_has_passed" => (ret <=> process_and_get_signal(self, now).ret)

\* enough_time_has_passed() has answered true for a late tick that a poll at
\* the same instant would claim, after an earlier claim.
C19_Witness ==
    /\ lastOp = "enough_time_has_passed" /\ ret
    /\ process_and_get_signal(self, now).ret
    /\ self.signal_count > 0
    /\ get_cycle_progress(self, now) > 0

\* enough_time_has_passed() has answered false once every due tick is claimed.
C19_WitnessNotDue ==
    /\ lastOp = "enough_time_has_passed" /\ ~ret
    /\ ~process_and_get_signal(self, now).ret
    /\ self.signal_count > 0

\* C20: in the earlier variant with MEASURED_DELTAS a poll that returns true
\* sets last_signal_time to the poll time itself, so the next signal is due
\* one full period after that poll and not at the next nominal tick; the
\* true results by time T are at most the whole periods in T, and can be
\* fewer (C20_Witness), whereas the timeline-based variant polled at the
\* same instants, at least once in every period, has returned true exactly
\* once per whole period elapsed.
C20_LegacyDrift ==
    legacy.mode = "MEASURED_DELTAS" =>
        /\ (lastOp = "process_and_get_signal" /\ legacy_ret) =>
             /\ legacy.last_signal_time = steady_ms(now)
             /\ \A t \in now..MaxTime :
                  legacy_enough_time_has_passed(legacy, t)
                      <=> steady_ms(t - now) >= legacy.period_duration
        /\ legacy_true_count * legacy.period_duration <= steady_ms(now)
        /\ (gap_free /\ lastOp = "process_and_get_signal") =>
             true_count = PeriodIndex(epoch, args.rate_limit_hz, now)

\* Polled at least once in every period, the timeline-based object has
\* returned true once per whole period elapsed and the object of the earlier
\* variant fewer times.
C20_Witness ==
    /\ legacy.mode = "MEASURED_DELTAS"
    /\ legacy.period_duration > 0
    /\ gap_free /\ lastOp = "process_and_get_signal"
    /\ true_count = PeriodIndex(epoch, args.rate_limit_hz, now)
    /\ legacy_true_count < true_count
    /\ legacy_true_count > 0

\* C21: in every reachable state of the timeline-based object, signal_count
\* is at most the whole periods elapsed since start_time: no tick is claimed
\* before it is due; and immediately after any process_and_get_signal()
\* call, whether it returned true or false, signal_count equals the whole
\* periods elapsed and enough_time_has_passed() at that instant is false.
C21_NoBacklogAfterPoll ==
    /\ self.signal_count <= WholePeriods(epoch, args.rate_limit_hz, now)
    /\ lastOp = "process_and_get_signal" =>
         /\ self.signal_count = WholePeriods(epoch, args.rate_limit_hz, now)
         /\ ~enough_time_has_passed(self, now)

\* A poll has returned false later in a period whose tick, the second or a
\* later one, had been claimed before.
C21_Witness ==
    /\ lastOp = "process_and_get_signal" /\ ~ret
    /\ self.signal_count >= 2
    /\ claim_time < now
    /\ self.signal_count = WholePeriods(epoch, args.rate_limit_hz, now)

\* A poll has returned true and claimed three periods at once.
C21_WitnessCatchUp ==
    /\ lastOp = "process_and_get_signal" /\ ret
    /\ self.signal_count - count_before >= 3
    /\ ~enough_time_has_passed(self, now)

\* C22: over any sequence of polls since construction or the last restart,
\* the process_and_get_signal() calls that returned true are never more
\* than signal_count, hence never more than the whole periods elapsed since
\* start_time; they are strictly fewer once a single poll has claimed more
\* than one missed period, and stay so until the next restart.
C22_TruesAtMostCount ==
    [][ /\ true_count' <= self'.signal_count
        /\ self'.signal_count <= WholePeriods(epoch', args.rate_limit_hz, now')
        /\ (lastOp' = "process_and_get_signal"
              /\ self'.signal_count - self.signal_count > 1) =>
             true_count' < self'.signal_count
        /\ (true_count < self.signal_count /\ lastOp' # "restart") =>
             true_count' < self'.signal_count ]_vars

\* After two true polls of which the last claimed two periods at once, the
\* true results are fewer than signal_count.
C22_Witness ==
    /\ lastOp = "process_and_get_signal" /\ ret
    /\ self.signal_count - count_before = 2
    /\ true_count = 2
    /\ true_count < self.signal_count

\* C23: in measured delta mode the deltas telescope: over any poll sequence
\* since construction or the last restart, the sum of the last_delta_time
\* values of all polls that returned true equals last_signal_time -
\* start_time, so no elapsed time is dropped or counted twice between
\* claimed ticks.
C23_DeltasTelescope ==
    args.delta_mode = "measured" =>
        delta_sum = duration_count(self.last_signal_time - self.start_time)

\* Three true polls after a restart, unevenly spaced, have been summed.
C23_Witness ==
    /\ args.delta_mode = "measured"
    /\ epoch > 0
    /\ true_count = 3
    /\ lastOp = "process_and_get_signal" /\ ret
    /\ get_last_delta_time(self) # duration_count(prev_claim_time - epoch)
    /\ delta_sum = duration_count(now - epoch)

\* last_signal_time of s is a whole number of periods after the instant of
\* construction.
OnGrid(s) ==
    IF s.period_duration = 0
    THEN s.last_signal_time = steady_ms(epoch)
    ELSE (s.last_signal_time - steady_ms(epoch)) % s.period_duration = 0

\* The period in whole milliseconds and the period 1.0 / rate_limit_hz in
\* seconds are the same duration.
SamePeriod == legacy.period_duration * SecondsDen = self.period_duration * MsPerSecond

C24_WitnessFalse ==
    /\ SamePeriod
    /\ legacy.mode = "PERFECT_DELTAS"
    /\ lastOp = "process_and_get_signal"
    /\ ~ret /\ ~legacy_ret /\ ~first_ret
    /\ legacy_true_count >= 1
    /\ legacy.last_signal_time < steady_ms(now)

====
